---- MODULE Spec2Model ----
(***************************************************************************)
(* A model of the resume application's suggestion engine, its panel, the   *)
(* two AI gateway routes, the section parser, the resume store and the     *)
(* editor page.                                                            *)
(*                                                                         *)
(*   SpecEngine   generateRealTimeSuggestions as a pure function           *)
(*   SpecPanel    the AISuggestionsPanel component (debounced analysis)    *)
(*   SpecGateway  POST /api/improve-resume and POST /api/analyze-resume    *)
(*   SpecSections ResumeEditor's parseContentIntoSections                  *)
(*   SpecStore    POST /api/upload and GET /api/resume/[id]                *)
(*   SpecPage     the SmartResumeEditor page and its improve requests      *)
(*                                                                         *)
(* JavaScript strings are TLA+ strings; a character is a string of         *)
(* length one.                                                             *)
(***************************************************************************)
EXTENDS Integers, Sequences, FiniteSets, TLC

VARIABLES
    \* -- engine harness: the arguments of a call and what the call did
    eContent, eRole, eArea, eSection, eResult,
    \* -- AISuggestionsPanel: props, React state, pending debounce timers
    resumeContent, targetRole, targetArea, currentSection,
    realTimeAnalysis, suggestions, loading, timers, closureGen, lastRun,
    \* -- the consumer of the panel: the onApplySuggestion calls it received
    applyCalls,
    \* -- gateway: one request being served
    gwOp, gwReq, gwPc, gwCalls, gwAi, gwResp,
    \* -- ResumeEditor: the prop initialContent and the state sections
    initialContent, sections,
    \* -- upload and resume routes: the clock, global.resumeStore, the upload
    \* -- requests being served and the last answer of GET /api/resume/[id]
    now, resumeStore, uploads, fetched,
    \* -- SmartResumeEditor: React state, the pending auto-improve timer and
    \* -- the requests to /api/improve-resume awaiting their response
    pgContent, autoImproving, processingChat, chatMessage, lastMessage,
    autoTimer, inFlight

engineVars == <<eContent, eRole, eArea, eSection, eResult>>
panelVars == <<resumeContent, targetRole, targetArea, currentSection,
               realTimeAnalysis, suggestions, loading, timers, closureGen,
               lastRun, applyCalls>>
gatewayVars == <<gwOp, gwReq, gwPc, gwCalls, gwAi, gwResp>>
sectionVars == <<initialContent, sections>>
storeVars == <<now, resumeStore, uploads, fetched>>
pageVars == <<pgContent, autoImproving, processingChat, chatMessage,
              lastMessage, autoTimer, inFlight>>
appVars == <<sectionVars, storeVars, pageVars>>
vars == <<engineVars, panelVars, gatewayVars, appVars>>

(***************************************************************************)
(* Bounds of the model.                                                    *)
(***************************************************************************)
\* longest run of padding whitespace put before and after a text
MaxPad == 1
\* how many words past the length threshold the filler texts go
MaxExtraWords == 1
\* how many debounce closures the panel may create (currentSection changes)
MaxClosures == 1
\* how many Apply clicks the panel receives
MaxApplies == 1
\* how many lines the texts given to ResumeEditor have
MaxLines == 3
\* how many upload requests are served, and how far the clock advances (ms)
MaxUploads == 2
MaxClock == 1

(***************************************************************************)
(* JavaScript string primitives.                                           *)
(***************************************************************************)
\* the absent optional argument / property
Undefined == "<undefined>"

\* the bullet character U+2022 (the module is written in ASCII)
Bullet == "*"

\* the backquote character U+0060, which a TLA+ string cannot hold
Backquote == "~"

\* the code-fence marker of three backquotes
Fence == Backquote \o Backquote \o Backquote

\* s.substring(a - 1, b): the characters a..b of s that exist
substring(s, a, b) ==
    LET from == IF a < 1 THEN 1 ELSE a
        to == IF b > Len(s) THEN Len(s) ELSE b
    IN IF from > to THEN "" ELSE SubSeq(s, from, to)

\* s.charAt(i - 1)
Ch(s, i) == substring(s, i, i)

UpperLetters == "ABCDEFGHIJKLMNOPQRSTUVWXYZ"
LowerLetters == "abcdefghijklmnopqrstuvwxyz"

\* the class \s of a regular expression (the members the texts here use)
IsWhitespace(c) == c \in {" ", "\n", "\t", "\r"}

\* the class \d of a regular expression
IsDigit(c) == c \in {"0", "1", "2", "3", "4", "5", "6", "7", "8", "9"}

\* the lower-case letter of every upper-case letter
LowerOf ==
    [c \in {Ch(UpperLetters, k) : k \in 1..26} |->
        Ch(LowerLetters, CHOOSE k \in 1..26 : Ch(UpperLetters, k) = c)]

LowerChar(c) == IF c \in DOMAIN LowerOf THEN LowerOf[c] ELSE c

\* String.prototype.toLowerCase
RECURSIVE toLowerCase(_)
toLowerCase(s) ==
    IF Len(s) = 0 THEN ""
    ELSE IF Len(s) = 1 THEN LowerChar(s)
    ELSE LET h == Len(s) \div 2
         IN toLowerCase(substring(s, 1, h)) \o toLowerCase(substring(s, h + 1, Len(s)))

\* String.prototype.includes
includes(hay, needle) ==
    \E i \in 1..(Len(hay) - Len(needle) + 1) :
        substring(hay, i, i + Len(needle) - 1) = needle

\* String.prototype.startsWith
startsWith(s, p) == Len(s) >= Len(p) /\ substring(s, 1, Len(p)) = p

\* String.prototype.trim
trim(s) ==
    LET keep == {i \in 1..Len(s) : ~IsWhitespace(Ch(s, i))}
    IN IF keep = {} THEN ""
       ELSE substring(s, CHOOSE i \in keep : \A j \in keep : i <= j,
                      CHOOSE i \in keep : \A j \in keep : i >= j)

\* Array.prototype.join
RECURSIVE join(_, _)
join(arr, sep) ==
    IF Len(arr) = 0 THEN ""
    ELSE IF Len(arr) = 1 THEN arr[1]
    ELSE arr[1] \o sep \o join(Tail(arr), sep)

\* Array.prototype.slice(0, n)
slice0(arr, n) == SubSeq(arr, 1, IF Len(arr) < n THEN Len(arr) ELSE n)

\* s repeated n times
RECURSIVE Rep(_, _)
Rep(s, n) ==
    IF n = 0 THEN ""
    ELSE IF n % 2 = 0 THEN LET h == Rep(s, n \div 2) IN h \o h
    ELSE s \o Rep(s, n - 1)

\* the starts of the maximal matches of /\s+/ in s
SeparatorStarts(s) ==
    {i \in 1..Len(s) :
        IsWhitespace(Ch(s, i)) /\ (i = 1 \/ ~IsWhitespace(Ch(s, i - 1)))}

\* s.split(/\s+/).length: one piece more than there are separators; the
\* pieces before a leading and after a trailing separator are empty strings
splitLength(s) == Cardinality(SeparatorStarts(s)) + 1

(***************************************************************************)
(* The suggestion engine (AISuggestionsPanel.tsx).                         *)
(***************************************************************************)
WordCountThreshold == 200
SummaryMinLength == 100
MaxListedKeywords == 5

\* /\d+<c>/ matches s at position i
MatchDigitsThen(s, i, c) ==
    /\ IsDigit(Ch(s, i))
    /\ \E k \in i..(Len(s) - 1) :
          /\ \A j \in i..k : IsDigit(Ch(s, j))
          /\ Ch(s, k + 1) = c

\* /\$\d+/ matches s at position i
MatchDollarDigits(s, i) ==
    Ch(s, i) = "$" /\ i + 1 <= Len(s) /\ IsDigit(Ch(s, i + 1))

\* the (lower-case) literal w matches s at position i under the i flag:
\* folded is s with every character folded to lower case
MatchLiteralIgnoreCase(folded, i, w) ==
    /\ i + Len(w) - 1 <= Len(folded)
    /\ substring(folded, i, i + Len(w) - 1) = w

QuantifierWords == {"increased", "improved", "reduced"}
ActionVerbs == {"led", "managed", "developed", "created", "implemented",
                "designed", "optimized"}

\* the same test without the i flag
hasQuantifiedAchievements_CaseSensitive(content) ==
    \E i \in 1..Len(content) :
        \/ MatchDigitsThen(content, i, "%")
        \/ MatchDigitsThen(content, i, "+")
        \/ MatchDollarDigits(content, i)
        \/ \E w \in QuantifierWords : MatchLiteralIgnoreCase(content, i, w)

\* /\d+%|\d+\+|\$\d+|increased|improved|reduced/gi.test(content), on a
\* regular expression object created by this evaluation (lastIndex = 0)
hasQuantifiedAchievements(content) ==
    LET folded == toLowerCase(content)
    IN \E i \in 1..Len(content) :
        \/ MatchDigitsThen(content, i, "%")
        \/ MatchDigitsThen(content, i, "+")
        \/ MatchDollarDigits(content, i)
        \/ \E w \in QuantifierWords : MatchLiteralIgnoreCase(folded, i, w)

\* /led|managed|developed|created|implemented|designed|optimized/gi.test(content)
hasActionVerbs(content) ==
    LET folded == toLowerCase(content)
    IN \E i \in 1..Len(content) :
        \E w \in ActionVerbs : MatchLiteralIgnoreCase(folded, i, w)

\* the own properties of the object literal keywordMap
keywordMap ==
    [k \in {"software engineer", "data scientist", "research scientist",
            "product manager", "default"} |->
        CASE k = "software engineer" ->
                <<"JavaScript", "Python", "React", "Node.js", "API", "Git", "Agile">>
          [] k = "data scientist" ->
                <<"Python", "R", "Machine Learning", "SQL", "Statistics", "TensorFlow">>
          [] k = "research scientist" ->
                <<"Research", "Publications", "Statistical Analysis",
                  "Data Analysis", "Methodology">>
          [] k = "product manager" ->
                <<"Product Strategy", "Roadmap", "Stakeholder Management",
                  "Analytics", "User Research">>
          [] k = "default" ->
                <<"Leadership", "Problem Solving", "Communication", "Teamwork",
                  "Project Management">>]

\* the properties every object literal inherits from Object.prototype
ObjectPrototypeFunctions ==
    {"constructor", "toString", "valueOf", "hasOwnProperty", "isPrototypeOf",
     "propertyIsEnumerable", "toLocaleString"}
ObjectPrototypeObjects == {"__proto__"}

\* keywordMap[key]: an own property, else an inherited one, else undefined
keywordMapGet(key) ==
    IF key \in DOMAIN keywordMap
    THEN [kind |-> "array", items |-> keywordMap[key]]
    ELSE IF key \in ObjectPrototypeFunctions
    THEN [kind |-> "function", items |-> <<>>]
    ELSE IF key \in ObjectPrototypeObjects
    THEN [kind |-> "object", items |-> <<>>]
    ELSE [kind |-> "undefined", items |-> <<>>]

\* keywordMap[roleKey] || keywordMap['default']
getRoleSpecificKeywords(role, area) ==
    LET roleKey == toLowerCase(role)
        found == keywordMapGet(roleKey)
    IN IF found.kind # "undefined" THEN found ELSE keywordMapGet("default")

\* roleKeywords.filter(keyword =>
\*     !content.toLowerCase().includes(keyword.toLowerCase()))
RECURSIVE missingOf(_, _)
missingOf(keywords, lowerContent) ==
    IF Len(keywords) = 0 THEN <<>>
    ELSE (IF ~includes(lowerContent, toLowerCase(keywords[1]))
          THEN <<keywords[1]>> ELSE <<>>)
         \o missingOf(Tail(keywords), lowerContent)

missingKeywords(roleKeywords, content) ==
    missingOf(roleKeywords, toLowerCase(content))

\* section || fallback
OrElse(section, fallback) ==
    IF section = Undefined \/ section = "" THEN fallback ELSE section

\* a suggestion literal with applied: true
Suggestion_Applied(id, type, section, priority, title, suggestion) ==
    [id |-> id, type |-> type, section |-> section, priority |-> priority,
     title |-> title, suggestion |-> suggestion, applied |-> TRUE]

\* a suggestion literal of the engine (each has applied: false)
Suggestion(id, type, section, priority, title, suggestion) ==
    [id |-> id, type |-> type, section |-> section, priority |-> priority,
     title |-> title, suggestion |-> suggestion, applied |-> FALSE]

\* the ids of a list of suggestions, in order
Ids(list) == [k \in 1..Len(list) |-> list[k].id]

\* how many suggestions of a list have the id
CountId(list, id) == Cardinality({k \in 1..Len(list) : list[k].id = id})

\* the skills check made for every section
getSectionSpecificSuggestions_AnySection(section, content, role) ==
    (IF section \in {"summary", "professional-summary"}
        /\ Len(content) < SummaryMinLength
     THEN <<Suggestion("summary-expand", "content", "summary", "high",
                       "Expand Professional Summary",
                       "Write a compelling summary mentioning your " \o role
                           \o " experience and key accomplishments.")>>
     ELSE <<>>)
    \o
    (IF ~includes(content, Bullet) /\ ~includes(content, "-")
     THEN <<Suggestion("skills-format", "format", "skills", "medium",
                       "Format Skills Section",
                       "Organize skills into categories with bullet points for better readability.")>>
     ELSE <<>>)

\* the skills check with || in place of &&
getSectionSpecificSuggestions_EitherMark(section, content, role) ==
    (IF section \in {"summary", "professional-summary"}
        /\ Len(content) < SummaryMinLength
     THEN <<Suggestion("summary-expand", "content", "summary", "high",
                       "Expand Professional Summary",
                       "Write a compelling summary mentioning your " \o role
                           \o " experience and key accomplishments.")>>
     ELSE <<>>)
    \o
    (IF section \in {"skills", "technical-skills"}
        /\ (~includes(content, Bullet) \/ ~includes(content, "-"))
     THEN <<Suggestion("skills-format", "format", "skills", "medium",
                       "Format Skills Section",
                       "Organize skills into categories with bullet points for better readability.")>>
     ELSE <<>>)

\* the summary check with <= in place of <
getSectionSpecificSuggestions_OffByOne(section, content, role) ==
    (IF section \in {"summary", "professional-summary"}
        /\ Len(content) <= SummaryMinLength
     THEN <<Suggestion("summary-expand", "content", "summary", "high",
                       "Expand Professional Summary",
                       "Write a compelling summary mentioning your " \o role
                           \o " experience and key accomplishments.")>>
     ELSE <<>>)
    \o
    (IF section \in {"skills", "technical-skills"}
        /\ ~includes(content, Bullet) /\ ~includes(content, "-")
     THEN <<Suggestion("skills-format", "format", "skills", "medium",
                       "Format Skills Section",
                       "Organize skills into categories with bullet points for better readability.")>>
     ELSE <<>>)

getSectionSpecificSuggestions(section, content, role) ==
    (IF section \in {"summary", "professional-summary"}
        /\ Len(content) < SummaryMinLength
     THEN <<Suggestion("summary-expand", "content", "summary", "high",
                       "Expand Professional Summary",
                       "Write a compelling summary mentioning your " \o role
                           \o " experience and key accomplishments.")>>
     ELSE <<>>)
    \o
    (IF section \in {"skills", "technical-skills"}
        /\ ~includes(content, Bullet) /\ ~includes(content, "-")
     THEN <<Suggestion("skills-format", "format", "skills", "medium",
                       "Format Skills Section",
                       "Organize skills into categories with bullet points for better readability.")>>
     ELSE <<>>)

\* The value of a call: what it returned, or that it threw.
Returned(list) == [status |-> "returned", suggestions |-> list]
Threw == [status |-> "threw", suggestions |-> <<>>]
NoResult == [status |-> "none", suggestions |-> <<>>]

\* the engine with a return of [] for the empty text
generateRealTimeSuggestions_EmptyGuard(content, role, area, section) ==
    IF content = "" THEN Returned(<<>>) ELSE
    LET wordCount == splitLength(content)
        roleKeywords == getRoleSpecificKeywords(role, area)
    IN IF roleKeywords.kind # "array"
       THEN Threw    \* TypeError: roleKeywords.filter is not a function
       ELSE
       LET missing == missingKeywords(roleKeywords.items, content)
       IN Returned(
           (IF wordCount < WordCountThreshold
            THEN <<Suggestion("word-count", "content",
                              OrElse(section, "overall"), "high",
                              "Expand Content",
                              "Add 2-3 more bullet points with specific accomplishments and metrics.")>>
            ELSE <<>>)
           \o
           (IF ~hasQuantifiedAchievements(content)
            THEN <<Suggestion("quantify", "content",
                              OrElse(section, "experience"), "high",
                              "Add Quantified Results",
                              "Replace generic statements with metrics.")>>
            ELSE <<>>)
           \o
           (IF ~hasActionVerbs(content)
            THEN <<Suggestion("action-verbs", "content",
                              OrElse(section, "experience"), "medium",
                              "Use Strong Action Verbs",
                              "Begin achievements with words like: Led, Architected, Optimized, Implemented, Designed.")>>
            ELSE <<>>)
           \o
           (IF Len(missing) > 0
            THEN <<Suggestion("keywords", "keyword", "skills", "high",
                              "Add " \o role \o " Keywords",
                              "Consider adding: "
                                  \o join(slice0(missing, MaxListedKeywords), ", "))>>
            ELSE <<>>)
           \o
           (IF section # Undefined /\ section # ""
            THEN getSectionSpecificSuggestions(section, content, role)
            ELSE <<>>))

generateRealTimeSuggestions(content, role, area, section) ==
    LET wordCount == splitLength(content)
        roleKeywords == getRoleSpecificKeywords(role, area)
    IN IF roleKeywords.kind # "array"
       THEN Threw    \* TypeError: roleKeywords.filter is not a function
       ELSE
       LET missing == missingKeywords(roleKeywords.items, content)
       IN Returned(
           (IF wordCount < WordCountThreshold
            THEN <<Suggestion("word-count", "content",
                              OrElse(section, "overall"), "high",
                              "Expand Content",
                              "Add 2-3 more bullet points with specific accomplishments and metrics.")>>
            ELSE <<>>)
           \o
           (IF ~hasQuantifiedAchievements(content)
            THEN <<Suggestion("quantify", "content",
                              OrElse(section, "experience"), "high",
                              "Add Quantified Results",
                              "Replace generic statements with metrics.")>>
            ELSE <<>>)
           \o
           (IF ~hasActionVerbs(content)
            THEN <<Suggestion("action-verbs", "content",
                              OrElse(section, "experience"), "medium",
                              "Use Strong Action Verbs",
                              "Begin achievements with words like: Led, Architected, Optimized, Implemented, Designed.")>>
            ELSE <<>>)
           \o
           (IF Len(missing) > 0
            THEN <<Suggestion("keywords", "keyword", "skills", "high",
                              "Add " \o role \o " Keywords",
                              "Consider adding: "
                                  \o join(slice0(missing, MaxListedKeywords), ", "))>>
            ELSE <<>>)
           \o
           (IF section # Undefined /\ section # ""
            THEN getSectionSpecificSuggestions(section, content, role)
            ELSE <<>>))

(***************************************************************************)
(* The engine as a pure function: the arguments are chosen, the call is    *)
(* made, its value is recorded.                                            *)
(***************************************************************************)
Snippets ==
    {"", "hello world",
     "Revenue up 45%", "team of 5+", "saved $100",
     "Increased sales", "costs REDUCED", "45 % of $ and + 5",
     "Led a team", "skilled handler",
     "JavaScript python REACT node.js api git agile",
     "rapid growth", "react, git",
     "leadership problem solving communication teamwork project management",
     "- item", "* item"}

\* n one-letter words separated by single spaces
Words(n) == Rep("w ", n - 1) \o "w"

FillerWordCounts ==
    {SummaryMinLength \div 2, SummaryMinLength \div 2 + 1}
    \cup ((WordCountThreshold - 1)..(WordCountThreshold + MaxExtraWords))

Texts ==
    {Rep(" ", lead) \o body \o trail :
        lead \in 0..MaxPad,
        body \in Snippets \cup {Words(n) : n \in FillerWordCounts},
        trail \in {"", "\n"}}

Roles ==
    {"", "software engineer", "Software Engineer", "data scientist",
     "research scientist", "Product Manager", "default", "astronaut",
     "constructor", "Constructor", "toString", "__proto__"}

Areas == {"", "Quantum Computing"}

Sections ==
    {Undefined, "", "summary", "professional-summary", "skills",
     "technical-skills", "experience"}

panelIdle ==
    /\ resumeContent = "" /\ targetRole = "" /\ targetArea = ""
    /\ currentSection = Undefined /\ realTimeAnalysis = TRUE
    /\ suggestions = <<>> /\ loading = FALSE /\ timers = <<>>
    /\ closureGen = 0 /\ lastRun = <<>> /\ applyCalls = <<>>

gatewayIdle ==
    /\ gwOp = "none" /\ gwReq = <<>> /\ gwPc = "idle" /\ gwCalls = 0
    /\ gwAi = <<>> /\ gwResp = <<>>

sectionsIdle == initialContent = "" /\ sections = <<>>

storeIdle == now = 0 /\ resumeStore = <<>> /\ uploads = <<>> /\ fetched = <<>>

pageIdle ==
    /\ pgContent = "" /\ autoImproving = FALSE /\ processingChat = FALSE
    /\ chatMessage = "" /\ lastMessage = "" /\ autoTimer = <<>>
    /\ inFlight = <<>>

appIdle == sectionsIdle /\ storeIdle /\ pageIdle

InitEngine ==
    /\ eContent \in Texts
    /\ eRole \in Roles
    /\ eArea \in Areas
    /\ eSection \in Sections
    /\ eResult = NoResult
    /\ panelIdle
    /\ gatewayIdle
    /\ appIdle

\* await generateRealTimeSuggestions(content, role, area, section)
Invoke ==
    /\ eResult = NoResult
    /\ eResult' = generateRealTimeSuggestions(eContent, eRole, eArea, eSection)
    /\ UNCHANGED <<eContent, eRole, eArea, eSection, panelVars, gatewayVars, appVars>>

NextEngine == Invoke

SpecEngine == InitEngine /\ [][NextEngine]_vars

(***************************************************************************)
(* Properties of the engine, checked under SpecEngine.                     *)
(***************************************************************************)
\* the maximal runs of non-whitespace characters of s
TokenCount(s) ==
    Cardinality({i \in 1..Len(s) :
        ~IsWhitespace(Ch(s, i)) /\ (i = 1 \/ IsWhitespace(Ch(s, i - 1)))})

\* s has a digit directly before % or +, a digit directly after $, or one
\* of the three words in any letter case
ContainsQuantifiedFigure(s) ==
    \/ \E i \in 1..(Len(s) - 1) :
          \/ IsDigit(Ch(s, i)) /\ Ch(s, i + 1) \in {"%", "+"}
          \/ Ch(s, i) = "$" /\ IsDigit(Ch(s, i + 1))
    \/ \E w \in QuantifierWords : includes(toLowerCase(s), w)

NamedProfileKeys ==
    {"software engineer", "data scientist", "research scientist",
     "product manager"}

\* the profile the specification assigns to a role
ExpectedProfile(role) ==
    IF toLowerCase(role) \in NamedProfileKeys
    THEN keywordMap[toLowerCase(role)]
    ELSE keywordMap["default"]

\* the keywords of a profile that are no substring of the text, in order
ExpectedMissing(role, content) ==
    LET profile == ExpectedProfile(role)
        absent == {k \in 1..Len(profile) :
                     ~includes(toLowerCase(content), toLowerCase(profile[k]))}
        \* the n-th smallest member of absent
        nth[n \in 1..Cardinality(absent)] ==
            CHOOSE k \in absent : Cardinality({j \in absent : j < k}) = n - 1
    IN [n \in 1..Cardinality(absent) |-> profile[nth[n]]]

\* C1: the engine is total: no call, for whatever text, role, area and
\* section, raises an error.
C1_EngineNeverRaises == eResult.status # "threw"

\* C2: the output has exactly one 'word-count' suggestion when the text has
\* fewer than 200 maximal non-whitespace runs, and none when it has 200 or
\* more.
C2_WordCountByTokens ==
    eResult.status = "returned" =>
        CountId(eResult.suggestions, "word-count")
            = (IF TokenCount(eContent) < WordCountThreshold THEN 1 ELSE 0)

\* C3: whenever the engine returns, its output has exactly one 'quantify'
\* suggestion if the text has no percentage figure, no plus-suffixed number,
\* no dollar amount and none of increased/improved/reduced in any letter
\* case, and no 'quantify' suggestion otherwise; it depends on the text only.
C3_QuantifyIffNoFigure ==
    eResult.status = "returned" =>
        CountId(eResult.suggestions, "quantify")
            = (IF ContainsQuantifiedFigure(eContent) THEN 0 ELSE 1)

C3_Witness ==
    /\ eResult.status = "returned"
    /\ eContent = "costs REDUCED"
    /\ CountId(eResult.suggestions, "quantify") = 0

\* C4: for every role and text, a call yields a 'keywords' suggestion iff a
\* keyword of the role's profile is absent from the text, and the suggestion
\* lists exactly the first min(5, k) of the k absent keywords in profile order.
C4_KeywordsListed ==
    eResult.status # "none" =>
        LET missing == ExpectedMissing(eRole, eContent)
            listed == {k \in 1..Len(eResult.suggestions) :
                          eResult.suggestions[k].id = "keywords"}
        IN /\ eResult.status = "returned"
           /\ Cardinality(listed) = (IF Len(missing) > 0 THEN 1 ELSE 0)
           /\ \A k \in listed :
                 eResult.suggestions[k].suggestion
                     = "Consider adding: "
                         \o join(slice0(missing, MaxListedKeywords), ", ")

\* C5: a role that case-folds to one of the four named keys uses that key's
\* profile, every other role uses the default profile.
C5_ProfileOfRole ==
    eResult.status # "none" =>
        getRoleSpecificKeywords(eRole, eArea)
            = [kind |-> "array", items |-> ExpectedProfile(eRole)]

\* C7: whenever the engine returns, its output has a 'summary-expand'
\* suggestion iff the section is 'summary' or 'professional-summary' and the
\* text is shorter than 100 characters; never without a section.
C7_SummaryExpand ==
    eResult.status = "returned" =>
        (CountId(eResult.suggestions, "summary-expand") >= 1
            <=> /\ eSection \in {"summary", "professional-summary"}
                /\ Len(eContent) < SummaryMinLength)

C7_Witness ==
    /\ eResult.status = "returned"
    /\ eSection = "professional-summary"
    /\ Len(eContent) = SummaryMinLength - 1
    /\ CountId(eResult.suggestions, "summary-expand") = 1

(***************************************************************************)
(* The AISuggestionsPanel component.  A pending debounce timer holds the   *)
(* arguments of the call that scheduled it, the section its closure        *)
(* captured and the closure it belongs to; every timer has the same delay, *)
(* so timers fire in the order they were scheduled.                        *)
(***************************************************************************)
PanelTexts == {"", "hello world"}
PanelRoles == {"", "software engineer", "constructor"}
PanelAreas == {"", "Quantum Computing"}
PanelSections == {Undefined, "summary"}

\* the condition of the effect without the role
EffectGuard_NoRole(live, content, role) == live /\ content # ""

\* if (realTimeAnalysis && resumeContent && targetRole)
EffectGuard(live, content, role) == live /\ content # "" /\ role # ""

\* the timers other than the one the closure gen holds in timeoutId
RECURSIVE clearTimeout(_, _)
clearTimeout(pending, gen) ==
    IF Len(pending) = 0 THEN <<>>
    ELSE (IF pending[1].gen = gen THEN <<>> ELSE <<pending[1]>>)
         \o clearTimeout(Tail(pending), gen)

\* the function debounce returns, called on the closure gen:
\* clearTimeout(timeoutId); timeoutId = setTimeout(() => func(...args), delay)
debounce(pending, gen, section, content, role, area) ==
    Append(clearTimeout(pending, gen),
           [content |-> content, role |-> role, area |-> area,
            section |-> section, gen |-> gen])

\* the body of the effect, run after a render in which a dependency changed
useEffect(pending, live, content, role, area, section, gen) ==
    IF EffectGuard(live, content, role)
    THEN debounce(pending, gen, section, content, role, area)
    ELSE pending

InitPanel ==
    /\ resumeContent \in PanelTexts
    /\ targetRole \in PanelRoles
    /\ targetArea \in PanelAreas
    /\ currentSection \in PanelSections
    /\ realTimeAnalysis = TRUE
    /\ suggestions = <<>>
    /\ loading = FALSE
    /\ closureGen = 0
    /\ timers = useEffect(<<>>, TRUE, resumeContent, targetRole, targetArea,
                          currentSection, 0)
    /\ lastRun = <<>>
    /\ applyCalls = <<>>
    /\ eContent = "" /\ eRole = "" /\ eArea = "" /\ eSection = Undefined
    /\ eResult = NoResult
    /\ gatewayIdle
    /\ appIdle

\* the parent renders the panel with another resumeContent
SetResumeContent(c) ==
    /\ c # resumeContent
    /\ resumeContent' = c
    /\ timers' = useEffect(timers, realTimeAnalysis, c, targetRole, targetArea,
                           currentSection, closureGen)
    /\ UNCHANGED <<targetRole, targetArea, currentSection, realTimeAnalysis,
                   suggestions, loading, closureGen, lastRun,
                   applyCalls,
                   engineVars, gatewayVars, appVars>>

\* the parent renders the panel with another targetRole
SetTargetRole(r) ==
    /\ r # targetRole
    /\ targetRole' = r
    /\ timers' = useEffect(timers, realTimeAnalysis, resumeContent, r,
                           targetArea, currentSection, closureGen)
    /\ UNCHANGED <<resumeContent, targetArea, currentSection, realTimeAnalysis,
                   suggestions, loading, closureGen, lastRun,
                   applyCalls,
                   engineVars, gatewayVars, appVars>>

\* the parent renders the panel with another targetArea
SetTargetArea(a) ==
    /\ a # targetArea
    /\ targetArea' = a
    /\ timers' = useEffect(timers, realTimeAnalysis, resumeContent, targetRole,
                           a, currentSection, closureGen)
    /\ UNCHANGED <<resumeContent, targetRole, currentSection, realTimeAnalysis,
                   suggestions, loading, closureGen, lastRun,
                   applyCalls,
                   engineVars, gatewayVars, appVars>>

\* the parent renders the panel with another currentSection: useCallback
\* returns a new debounced function (with a timeoutId of its own), which is
\* a dependency of the effect
SetCurrentSection(sec) ==
    /\ sec # currentSection
    /\ closureGen < MaxClosures
    /\ currentSection' = sec
    /\ closureGen' = closureGen + 1
    /\ timers' = useEffect(timers, realTimeAnalysis, resumeContent, targetRole,
                           targetArea, sec, closureGen + 1)
    /\ UNCHANGED <<resumeContent, targetRole, targetArea, realTimeAnalysis,
                   suggestions, loading, lastRun, applyCalls,
                   engineVars, gatewayVars, appVars>>

\* onClick={() => setRealTimeAnalysis(!realTimeAnalysis)}
ToggleRealTimeAnalysis ==
    /\ realTimeAnalysis' = ~realTimeAnalysis
    /\ timers' = useEffect(timers, ~realTimeAnalysis, resumeContent, targetRole,
                           targetArea, currentSection, closureGen)
    /\ UNCHANGED <<resumeContent, targetRole, targetArea, currentSection,
                   suggestions, loading, closureGen, lastRun,
                   applyCalls,
                   engineVars, gatewayVars, appVars>>

\* the oldest pending timer fires: the function analyzeContent debounces
analyzeContent ==
    /\ Len(timers) > 0
    /\ LET t == Head(timers)
           result == generateRealTimeSuggestions(t.content, t.role, t.area,
                                                 t.section)
       IN /\ timers' = Tail(timers)
          /\ IF t.content = "" \/ t.role = ""
             THEN UNCHANGED <<suggestions, loading, lastRun>>
             ELSE /\ lastRun' = <<[content |-> t.content, role |-> t.role,
                                   area |-> t.area, section |-> t.section]>>
                  /\ suggestions' = IF result.status = "returned"
                                    THEN result.suggestions
                                    ELSE suggestions
                  /\ loading' = FALSE
    /\ UNCHANGED <<resumeContent, targetRole, targetArea, currentSection,
                   realTimeAnalysis, closureGen, applyCalls,
                   engineVars, gatewayVars, appVars>>

\* the Apply button of the k-th displayed suggestion, rendered while the
\* suggestion is not applied
handleApplySuggestion(k) ==
    /\ k \in 1..Len(suggestions)
    /\ ~suggestions[k].applied
    /\ Len(applyCalls) < MaxApplies
    /\ suggestions' = [j \in 1..Len(suggestions) |->
                          IF suggestions[j].id = suggestions[k].id
                          THEN [suggestions[j] EXCEPT !.applied = TRUE]
                          ELSE suggestions[j]]
    /\ applyCalls' = Append(applyCalls, suggestions[k].id)
    /\ UNCHANGED <<resumeContent, targetRole, targetArea, currentSection,
                   realTimeAnalysis, loading, timers, closureGen, lastRun,
                   engineVars, gatewayVars, appVars>>

NextPanel ==
    \/ \E c \in PanelTexts : SetResumeContent(c)
    \/ \E r \in PanelRoles : SetTargetRole(r)
    \/ \E a \in PanelAreas : SetTargetArea(a)
    \/ \E sec \in PanelSections : SetCurrentSection(sec)
    \/ ToggleRealTimeAnalysis
    \/ analyzeContent
    \/ \E k \in 1..Len(suggestions) : handleApplySuggestion(k)

SpecPanel == InitPanel /\ [][NextPanel]_vars

\* C6: with an empty target role the panel analyses nothing at all, not
\* only no keywords: no analysis is ever pending for an empty role (or an
\* empty text), the engine is never run on one, and every displayed
\* suggestion comes from a run that had a role; so no 'keywords', length,
\* quantification or action-verb suggestion is produced for an empty role.
C6_NoAnalysisWithoutRole ==
    /\ \A k \in 1..Len(timers) : timers[k].role # "" /\ timers[k].content # ""
    /\ \A k \in 1..Len(lastRun) : lastRun[k].role # "" /\ lastRun[k].content # ""
    /\ suggestions # <<>> => lastRun # <<>>

\* the role is empty, the section changed after the last analysis ran, and
\* nothing was scheduled for it
C6_Witness ==
    /\ targetRole = "" /\ resumeContent = "hello world" /\ realTimeAnalysis
    /\ timers = <<>>
    /\ lastRun # <<>> /\ lastRun[1].section # currentSection

\* C6 as stated: with an empty target role only the keyword check is off,
\* so once nothing is pending the panel shows the length, quantification
\* and action-verb suggestions of the current non-empty text and no
\* 'keywords' suggestion.
C6_OnlyKeywordCheckDisabled ==
    (targetRole = "" /\ resumeContent # "" /\ realTimeAnalysis /\ timers = <<>>)
        => /\ CountId(suggestions, "keywords") = 0
           /\ CountId(suggestions, "word-count")
                 = (IF splitLength(resumeContent) < WordCountThreshold
                    THEN 1 ELSE 0)
           /\ CountId(suggestions, "quantify")
                 = (IF hasQuantifiedAchievements(resumeContent) THEN 0 ELSE 1)
           /\ CountId(suggestions, "action-verbs")
                 = (IF hasActionVerbs(resumeContent) THEN 0 ELSE 1)

(***************************************************************************)
(* JSON.parse, for the JSON texts the model uses: objects, arrays, strings *)
(* without escape sequences, integers and the three literals.  A value is  *)
(* [t, s, kids]: its type, its text (strings, numbers, literals) and its   *)
(* members as <<key, value>> pairs (the key is "" for array elements).     *)
(***************************************************************************)
JsonValue(t, text, kids) == [t |-> t, s |-> text, kids |-> kids]
NoValue == JsonValue("none", "", <<>>)
ParseFail == [ok |-> FALSE, next |-> 0, val |-> NoValue]
ParseOk(val, next) == [ok |-> TRUE, next |-> next, val |-> val]

\* the first position from i on that holds no JSON whitespace
SkipWs(s, i) ==
    LET rest == {j \in i..Len(s) : ~IsWhitespace(Ch(s, j))}
    IN IF rest = {} THEN Len(s) + 1
       ELSE CHOOSE j \in rest : \A k \in rest : j <= k

\* a string literal at i: up to the next quote, no escape, no control character
ParseString(s, i) ==
    IF i > Len(s) \/ Ch(s, i) # "\"" THEN ParseFail
    ELSE LET quotes == {j \in (i + 1)..Len(s) : Ch(s, j) = "\""}
         IN IF quotes = {} THEN ParseFail
            ELSE LET close == CHOOSE j \in quotes : \A k \in quotes : j <= k
                     body == substring(s, i + 1, close - 1)
                 IN IF \E j \in 1..Len(body) :
                          Ch(body, j) \in {"\\", "\n", "\t", "\r"}
                    THEN ParseFail
                    ELSE ParseOk(JsonValue("string", body, <<>>), close + 1)

\* an integer literal at i
ParseNumber(s, i) ==
    LET from == IF i <= Len(s) /\ Ch(s, i) = "-" THEN i + 1 ELSE i
        stops == {j \in from..Len(s) : ~IsDigit(Ch(s, j))}
        stop == IF stops = {} THEN Len(s) + 1
                ELSE CHOOSE j \in stops : \A k \in stops : j <= k
    IN IF stop = from \/ (stop - from > 1 /\ Ch(s, from) = "0") THEN ParseFail
       ELSE ParseOk(JsonValue("number", substring(s, i, stop - 1), <<>>), stop)

ParseLiteral(s, i) ==
    IF \E w \in {"true", "false", "null"} : substring(s, i, i + Len(w) - 1) = w
    THEN LET w == CHOOSE w \in {"true", "false", "null"} :
                      substring(s, i, i + Len(w) - 1) = w
         IN ParseOk(JsonValue(w, w, <<>>), i + Len(w))
    ELSE ParseFail

RECURSIVE ParseValue(_, _)
RECURSIVE ParseMembers(_, _, _, _)

\* the value that starts at position i (no leading whitespace)
ParseValue(s, i) ==
    IF i > Len(s) THEN ParseFail
    ELSE IF Ch(s, i) = "{" THEN
        (IF SkipWs(s, i + 1) <= Len(s) /\ Ch(s, SkipWs(s, i + 1)) = "}"
         THEN ParseOk(JsonValue("object", "", <<>>), SkipWs(s, i + 1) + 1)
         ELSE ParseMembers(s, SkipWs(s, i + 1), <<>>, TRUE))
    ELSE IF Ch(s, i) = "[" THEN
        (IF SkipWs(s, i + 1) <= Len(s) /\ Ch(s, SkipWs(s, i + 1)) = "]"
         THEN ParseOk(JsonValue("array", "", <<>>), SkipWs(s, i + 1) + 1)
         ELSE ParseMembers(s, SkipWs(s, i + 1), <<>>, FALSE))
    ELSE IF Ch(s, i) = "\"" THEN ParseString(s, i)
    ELSE IF Ch(s, i) = "-" \/ IsDigit(Ch(s, i)) THEN ParseNumber(s, i)
    ELSE ParseLiteral(s, i)

\* the members of an object (keyed) or of an array, the next one at i
ParseMembers(s, i, acc, keyed) ==
    LET key == IF keyed THEN ParseString(s, i)
               ELSE ParseOk(JsonValue("string", "", <<>>), i)
        colon == SkipWs(s, key.next)
        at == IF keyed THEN SkipWs(s, colon + 1) ELSE i
    IN IF ~key.ok \/ (keyed /\ (colon > Len(s) \/ Ch(s, colon) # ":"))
       THEN ParseFail
       ELSE LET v == ParseValue(s, at)
                after == SkipWs(s, v.next)
                members == Append(acc, <<key.val.s, v.val>>)
            IN IF ~v.ok \/ after > Len(s) THEN ParseFail
               ELSE IF Ch(s, after) = "," THEN
                   ParseMembers(s, SkipWs(s, after + 1), members, keyed)
               ELSE IF Ch(s, after) = (IF keyed THEN "}" ELSE "]") THEN
                   ParseOk(JsonValue(IF keyed THEN "object" ELSE "array", "",
                                     members), after + 1)
               ELSE ParseFail

\* JSON.parse(s): the value, or that it threw a SyntaxError
JSONparse(s) ==
    LET v == ParseValue(s, SkipWs(s, 1))
    IN IF v.ok /\ SkipWs(s, v.next) = Len(s) + 1 THEN v ELSE ParseFail

\* s.replace(/<pat>/g, ''): every match removed, left to right
RECURSIVE removeAll(_, _)
removeAll(s, pat) ==
    IF Len(s) < Len(pat) THEN s
    ELSE IF substring(s, 1, Len(pat)) = pat
    THEN removeAll(substring(s, Len(pat) + 1, Len(s)), pat)
    ELSE Ch(s, 1) \o removeAll(substring(s, 2, Len(s)), pat)

(***************************************************************************)
(* The gateway routes: POST /api/improve-resume and POST                   *)
(* /api/analyze-resume.  One request is served at a time; the handler      *)
(* advances from one await to the next.                                    *)
(***************************************************************************)
\* !v for a string or missing property
Falsy(v) == v = Undefined \/ v = ""

\* v || fallback
Or(v, fallback) == IF Falsy(v) THEN fallback ELSE v

\* ${v} in a template literal
Interpolate(v) == IF v = Undefined THEN "undefined" ELSE v

Response(status, error, details, content, message, analysis) ==
    [status |-> status, error |-> error, details |-> details,
     improvedContent |-> content, message |-> message, analysis |-> analysis]

ErrorResponse(status, error, details) ==
    Response(status, error, details, "", "", NoValue)

\* the improve route rejects the body: !resumeContent && !action
ImproveInvalid_Both(req) == Falsy(req.resumeContent) /\ Falsy(req.action)

\* the improve route rejects the body: !resumeContent || !action
ImproveInvalid(req) == Falsy(req.resumeContent) \/ Falsy(req.action)

\* the analyze route rejects the body on the resume text alone
AnalyzeInvalid_TextOnly(req) == Falsy(req.resumeContent)

\* the analyze route rejects the body: !resumeContent || !targetRole
AnalyzeInvalid(req) == Falsy(req.resumeContent) \/ Falsy(req.targetRole)

\* the prompt of the improve route
ImprovePrompt(req) ==
    IF req.action = "auto-improve"
    THEN "Improve this resume for a " \o Interpolate(req.targetRole)
             \o " position in " \o Or(req.targetArea, "general")
             \o " field. Original Resume: " \o req.resumeContent
    ELSE IF req.action = "chat-command"
    THEN "Modify the resume based on this request: "
             \o Interpolate(req.command)
             \o " Current resume for " \o Interpolate(req.targetRole)
             \o " in " \o Or(req.targetArea, "general") \o ": "
             \o req.resumeContent
    ELSE ""

\* the prompt of the analyze route
AnalyzePrompt(req) ==
    "Analyze this resume for a " \o req.targetRole \o " position in "
        \o Or(req.targetArea, "general") \o ". Resume Content: "
        \o req.resumeContent

\* .replace(/^(text|resume|content):\s*/i, '')
stripLabel(s) ==
    LET labels == {w \in {"text:", "resume:", "content:"} :
                      toLowerCase(substring(s, 1, Len(w))) = w}
    IN IF labels = {} THEN s
       ELSE LET w == CHOOSE w \in labels : TRUE
                rest == {j \in (Len(w) + 1)..Len(s) : ~IsWhitespace(Ch(s, j))}
            IN IF rest = {} THEN ""
               ELSE substring(s, CHOOSE j \in rest : \A k \in rest : j <= k, Len(s))

\* the clean-up of the improve route's response text
cleanImproved(text) == trim(stripLabel(removeAll(trim(text), Fence)))

\* the clean-up of the analyze route's response text
cleanedResponse(text) ==
    IF startsWith(trim(text), Fence \o "json")
    THEN removeAll(removeAll(trim(text), Fence \o "json"), Fence)
    ELSE trim(text)

\* the message of the success response of the improve route
ImproveMessage(req) ==
    IF req.action = "auto-improve"
    THEN "Your resume has been automatically improved!"
    ELSE IF req.action = "chat-command"
    THEN "Applied your request: " \o Interpolate(req.command)
    ELSE ""

SyntaxErrorMessage == "Unexpected token in JSON"
NoTextMessage == "No response text received from Gemini"

\* a thrown value that is not an Error object
NonErrorThrown == "<non-Error value>"

\* geminiError instanceof Error ? geminiError.message : fallback
ErrorDetails(thrown, fallback) ==
    IF thrown = NonErrorThrown THEN fallback ELSE thrown

\* the improve route without the check of response.text
ImproveOutcome_NoTextCheck(req, ai) ==
    IF ai.outcome = "throws"
    THEN ErrorResponse(503, "AI improvement failed",
                       ErrorDetails(ai.text, "Gemini service unavailable"))
    ELSE Response(200, "", "", cleanImproved(Or(ai.text, "")),
                  ImproveMessage(req), NoValue)

\* what the route does with the outcome of generateContent
ImproveOutcome(req, ai) ==
    IF ai.outcome = "throws"
    THEN ErrorResponse(503, "AI improvement failed",
                       ErrorDetails(ai.text, "Gemini service unavailable"))
    ELSE IF Falsy(ai.text)
    THEN ErrorResponse(503, "AI improvement failed", NoTextMessage)
    ELSE Response(200, "", "", cleanImproved(ai.text), ImproveMessage(req),
                  NoValue)

AnalyzeOutcome(req, ai) ==
    IF ai.outcome = "throws"
    THEN ErrorResponse(503, "AI analysis failed",
                       ErrorDetails(ai.text, "Gemini service unavailable"))
    ELSE IF Falsy(ai.text)
    THEN ErrorResponse(503, "AI analysis failed", NoTextMessage)
    ELSE LET parsed == JSONparse(cleanedResponse(ai.text))
         IN IF ~parsed.ok
            THEN ErrorResponse(503, "AI analysis failed", SyntaxErrorMessage)
            ELSE Response(200, "", "", "", "", parsed.val)

\* the requests and the behaviours of the external service in the model
Sessions == {TRUE, FALSE}
RequestTexts == {Undefined, "", "Led a team"}
RequestRoles == {Undefined, "", "software engineer"}
RequestActions == {Undefined, "", "auto-improve", "chat-command", "translate"}
RequestCommands == {Undefined, "shorten it"}
ThrownMessages == {"fetch failed", SyntaxErrorMessage, NonErrorThrown}
ImproveTexts ==
    {Undefined, "", " ", "Improved resume", Fence,
     Fence \o "\nImproved resume\n" \o Fence,
     "Resume: Improved resume",
     Fence \o "\ntext: Improved resume\n" \o Fence}
AnalyzeTexts ==
    {Undefined, "", "Here is the analysis", "null",
     "{\"overallScore\": 80}",
     Fence \o "json\n{\"overallScore\": 80}\n" \o Fence,
     "{\"overallScore\": 80}\n" \o Fence,
     Fence \o "json\n{\"strengths\": [\"uses " \o Fence \o " fences\"]}\n" \o Fence}

Requests(op) ==
    [session : Sessions, bodyOk : BOOLEAN, resumeContent : RequestTexts,
     targetRole : RequestRoles, targetArea : {Undefined},
     action : (IF op = "improve" THEN RequestActions ELSE {Undefined}),
     command : (IF op = "improve" THEN RequestCommands ELSE {Undefined})]

InitGateway ==
    /\ gatewayIdle
    /\ appIdle
    /\ panelIdle
    /\ eContent = "" /\ eRole = "" /\ eArea = "" /\ eSection = Undefined
    /\ eResult = NoResult

\* a request arrives at one of the two routes
Receive(op, req) ==
    /\ gwPc \in {"idle", "done"}
    /\ gwOp' = op
    /\ gwReq' = <<req>>
    /\ gwPc' = "session"
    /\ gwCalls' = 0
    /\ gwAi' = <<>>
    /\ gwResp' = <<>>
    /\ UNCHANGED <<engineVars, panelVars, appVars>>

\* await getServerSession(authOptions); if (!session) return 401
CheckSession ==
    /\ gwPc = "session"
    /\ IF gwReq[1].session
       THEN gwPc' = "body" /\ UNCHANGED gwResp
       ELSE /\ gwPc' = "done"
            /\ gwResp' = <<ErrorResponse(401, "Unauthorized", "")>>
    /\ UNCHANGED <<gwOp, gwReq, gwCalls, gwAi, engineVars, panelVars, appVars>>

\* await request.json() and the validation of the body; a body that is no
\* JSON makes request.json() throw into the outer catch
ParseBody ==
    /\ gwPc = "body"
    /\ IF ~gwReq[1].bodyOk
       THEN /\ gwPc' = "done"
            /\ gwResp' = <<ErrorResponse(500,
                            IF gwOp = "improve" THEN "Improvement failed"
                            ELSE "Analysis failed", SyntaxErrorMessage)>>
       ELSE IF (gwOp = "improve" /\ ImproveInvalid(gwReq[1]))
               \/ (gwOp = "analyze" /\ AnalyzeInvalid(gwReq[1]))
       THEN /\ gwPc' = "done"
            /\ gwResp' = <<ErrorResponse(400,
                            IF gwOp = "improve"
                            THEN "Resume content and action are required"
                            ELSE "Resume content and target role are required",
                            "")>>
       ELSE gwPc' = "call" /\ UNCHANGED gwResp
    /\ UNCHANGED <<gwOp, gwReq, gwCalls, gwAi, engineVars, panelVars, appVars>>

\* genai.models.generateContent({model, contents: prompt, config}) is called
CallGenerateContent ==
    /\ gwPc = "call"
    /\ gwCalls' = gwCalls + 1
    /\ gwAi' = <<[prompt |-> IF gwOp = "improve" THEN ImprovePrompt(gwReq[1])
                             ELSE AnalyzePrompt(gwReq[1]),
                  outcome |-> "pending", text |-> ""]>>
    /\ gwPc' = "await"
    /\ UNCHANGED <<gwOp, gwReq, gwResp, engineVars, panelVars, appVars>>

\* a route that calls the service once more when the first call throws
Settle_Retry(outcome, text) ==
    /\ gwPc = "await"
    /\ gwAi' = <<[gwAi[1] EXCEPT !.outcome = outcome, !.text = text]>>
    /\ IF outcome = "throws" /\ gwCalls < 2
       THEN gwResp' = <<>> /\ gwPc' = "call"
       ELSE /\ gwResp' = <<IF gwOp = "improve"
                           THEN ImproveOutcome(gwReq[1], gwAi'[1])
                           ELSE AnalyzeOutcome(gwReq[1], gwAi'[1])>>
            /\ gwPc' = "done"
    /\ UNCHANGED <<gwOp, gwReq, gwCalls, engineVars, panelVars, appVars>>

\* the call settles (it throws with a message, or returns a response whose
\* text may be missing) and the route answers
Settle(outcome, text) ==
    /\ gwPc = "await"
    /\ gwAi' = <<[gwAi[1] EXCEPT !.outcome = outcome, !.text = text]>>
    /\ gwResp' = <<IF gwOp = "improve"
                   THEN ImproveOutcome(gwReq[1], gwAi'[1])
                   ELSE AnalyzeOutcome(gwReq[1], gwAi'[1])>>
    /\ gwPc' = "done"
    /\ UNCHANGED <<gwOp, gwReq, gwCalls, engineVars, panelVars, appVars>>

CallThrows == \E m \in ThrownMessages : Settle("throws", m)

CallReturns ==
    \E t \in (IF gwOp = "improve" THEN ImproveTexts ELSE AnalyzeTexts) :
        Settle("returns", t)

NextGateway ==
    \/ \E op \in {"improve", "analyze"} : \E req \in Requests(op) :
          Receive(op, req)
    \/ CheckSession
    \/ ParseBody
    \/ CallGenerateContent
    \/ CallThrows
    \/ CallReturns

SpecGateway == InitGateway /\ [][NextGateway]_vars

(***************************************************************************)
(* Properties of the gateway, checked under SpecGateway.  They are about   *)
(* requests the route itself handles: a session exists and the body is a   *)
(* JSON object (401 and 500 are answered before the route reads a field).  *)
(***************************************************************************)
\* the request in hand reached the validation of its fields
Validated == gwReq # <<>> /\ gwReq[1].session /\ gwReq[1].bodyOk

\* C8: an improve request whose resume text is empty or missing, or whose
\* action is missing, is answered 400 with the validation error, and the
\* external service is never called for it.
C8_ImproveValidation ==
    (gwOp = "improve" /\ gwReq # <<>>
        /\ (Falsy(gwReq[1].resumeContent) \/ Falsy(gwReq[1].action)))
    => /\ gwCalls = 0
       /\ gwPc \notin {"call", "await"}
       /\ (gwPc = "done" /\ Validated)
             => gwResp = <<ErrorResponse(400,
                            "Resume content and action are required", "")>>

C8_Witness ==
    /\ gwOp = "improve" /\ gwPc = "done" /\ Validated
    /\ gwReq[1].action = "auto-improve" /\ gwReq[1].resumeContent = ""
    /\ gwResp[1].status = 400 /\ gwCalls = 0

\* C9: an analyze request whose resume text or target role is empty or
\* missing is answered 400 with the validation error, and the external
\* service is never called for it.
C9_AnalyzeValidation ==
    (gwOp = "analyze" /\ gwReq # <<>>
        /\ (Falsy(gwReq[1].resumeContent) \/ Falsy(gwReq[1].targetRole)))
    => /\ gwCalls = 0
       /\ gwPc \notin {"call", "await"}
       /\ (gwPc = "done" /\ Validated)
             => gwResp = <<ErrorResponse(400,
                            "Resume content and target role are required", "")>>

C9_Witness ==
    /\ gwOp = "analyze" /\ gwPc = "done" /\ Validated
    /\ gwReq[1].resumeContent = "Led a team" /\ gwReq[1].targetRole = Undefined
    /\ gwResp[1].status = 400 /\ gwCalls = 0

\* C10: an analyze request whose call returns text that is no JSON (also
\* after the fences are stripped) is never answered with success, and is
\* answered with an error whose status or error code differs from the one
\* given when the call throws or returns no text (503 'AI analysis failed').
C10_MalformedIsDistinct ==
    (gwOp = "analyze" /\ gwPc = "done" /\ gwAi # <<>>
        /\ gwAi[1].outcome = "returns" /\ ~Falsy(gwAi[1].text)
        /\ ~JSONparse(cleanedResponse(gwAi[1].text)).ok)
    => /\ gwResp[1].status # 200
       /\ <<gwResp[1].status, gwResp[1].error>>
             # <<AnalyzeOutcome(gwReq[1], [outcome |-> "throws",
                                            text |-> "fetch failed"]).status,
                 AnalyzeOutcome(gwReq[1], [outcome |-> "throws",
                                            text |-> "fetch failed"]).error>>

\* the request passed authentication and the validation of its body
PassedValidation ==
    /\ Validated
    /\ IF gwOp = "improve" THEN ~ImproveInvalid(gwReq[1])
                           ELSE ~AnalyzeInvalid(gwReq[1])

endsWithFence(s) == Len(s) >= 3 /\ substring(s, Len(s) - 2, Len(s)) = Fence

\* the JSON text J of a returned text that is J wrapped in a leading
\* fence-json marker and a trailing fence, or J followed by a trailing fence
FencedBody(text) ==
    LET t == trim(text)
    IN IF ~endsWithFence(t) THEN ""
       ELSE IF startsWith(t, Fence \o "json") /\ Len(t) >= 10
       THEN trim(substring(t, 8, Len(t) - 3))
       ELSE trim(substring(t, 1, Len(t) - 3))

\* C11: an analyze request whose call returns a JSON object J wrapped in a
\* leading fence-json marker and a trailing fence, or J followed only by a
\* trailing fence, is answered with success and an analysis equal to J, every
\* field value unchanged.
C11_FencedJsonKept ==
    (gwOp = "analyze" /\ gwPc = "done" /\ gwAi # <<>>
        /\ gwAi[1].outcome = "returns" /\ ~Falsy(gwAi[1].text)
        /\ JSONparse(FencedBody(gwAi[1].text)).ok
        /\ JSONparse(FencedBody(gwAi[1].text)).val.t = "object")
    => /\ gwResp[1].status = 200
       /\ gwResp[1].analysis = JSONparse(FencedBody(gwAi[1].text)).val

\* C12: an improve request that passed validation and whose call throws or
\* returns no text is answered 503 'AI improvement failed' with the message
\* of the error as details (the message of the thrown Error, or the message
\* about the missing text), never 400, and with no improved content.
C12_ImproveUnavailable ==
    (gwOp = "improve" /\ gwPc = "done" /\ gwAi # <<>>
        /\ (gwAi[1].outcome = "throws" \/ Falsy(gwAi[1].text)))
    => /\ PassedValidation
       /\ gwResp[1].status = 503
       /\ gwResp[1].error = "AI improvement failed"
       /\ gwResp[1].details # ""
       /\ (gwAi[1].outcome = "throws" /\ gwAi[1].text # NonErrorThrown)
             => gwResp[1].details = gwAi[1].text
       /\ gwAi[1].outcome = "returns" => gwResp[1].details = NoTextMessage
       /\ gwResp[1].improvedContent = ""
       /\ gwResp[1].message = ""

C12_Witness ==
    /\ gwOp = "improve" /\ gwPc = "done" /\ gwAi # <<>>
    /\ gwAi[1].outcome = "returns" /\ gwAi[1].text = Undefined
    /\ gwResp[1].status = 503 /\ gwResp[1].details = NoTextMessage

\* C13: no gateway operation answers with success and an empty result: a
\* successful improve carries a non-empty improved text and a successful
\* analyze carries an analysis that is not null, whatever text the call
\* returned.
C13_NoEmptySuccess ==
    (gwPc = "done" /\ gwResp[1].status = 200)
    => IF gwOp = "improve"
       THEN gwResp[1].improvedContent # ""
       ELSE gwResp[1].analysis.t \notin {"null", "none"}

\* C14: a request that passed authentication and validation makes exactly one
\* call of the external service, whether the call succeeds or fails; no
\* request ever makes a second call.
C14_ExactlyOneCall ==
    /\ gwCalls <= 1
    /\ (gwPc \in {"await", "done"} /\ PassedValidation) => gwCalls = 1

C14_Witness ==
    /\ gwPc = "done" /\ PassedValidation /\ gwAi # <<>>
    /\ gwAi[1].outcome = "throws" /\ gwCalls = 1 /\ gwResp[1].status = 503

\* the text begins with one of the labels text:, resume:, content: (any case)
BeginsWithLabel(s) ==
    \E w \in {"text:", "resume:", "content:"} :
        toLowerCase(substring(s, 1, Len(w))) = w

\* C15: for every non-empty text returned by the call, the improved content
\* contains no fence, does not begin with one of the labels text:, resume:,
\* content: (any case) and has no leading or trailing whitespace, also when
\* the label follows an opening fence.
C15_ImprovedIsClean ==
    (gwOp = "improve" /\ gwPc = "done" /\ gwResp[1].status = 200)
    => /\ ~includes(gwResp[1].improvedContent, Fence)
       /\ ~BeginsWithLabel(gwResp[1].improvedContent)
       /\ trim(gwResp[1].improvedContent) = gwResp[1].improvedContent

\* C16: in the panel every new trigger (a change of the text, the role, the
\* area or the current section, or the live toggle) supersedes the analysis
\* still pending, so at most one analysis is pending at any time.
C16_AtMostOnePending == Len(timers) <= 1

IsLetter(c) ==
    c # "" /\ \E k \in 1..26 : c = Ch(UpperLetters, k) \/ c = Ch(LowerLetters, k)

\* one of the action verbs stands in the text as a word (in any letter case):
\* no letter precedes it and no letter follows it
ContainsVerbAsWord(content) ==
    LET folded == toLowerCase(content)
    IN \E i \in 1..Len(content) : \E w \in ActionVerbs :
          /\ MatchLiteralIgnoreCase(folded, i, w)
          /\ ~IsLetter(Ch(folded, i - 1))
          /\ ~IsLetter(Ch(folded, i + Len(w)))

\* C17: a call yields exactly one 'action-verbs' suggestion (type content,
\* priority medium) if the text contains none of the verbs led, managed,
\* developed, created, implemented, designed, optimized as a word in any
\* letter case, and none if it contains at least one.
C17_ActionVerbsIffNoVerbWord ==
    eResult.status = "returned" =>
        /\ CountId(eResult.suggestions, "action-verbs")
              = (IF ContainsVerbAsWord(eContent) THEN 0 ELSE 1)
        /\ \A k \in 1..Len(eResult.suggestions) :
              eResult.suggestions[k].id = "action-verbs"
                 => /\ eResult.suggestions[k].type = "content"
                    /\ eResult.suggestions[k].priority = "medium"

\* C18: a call yields a 'skills-format' suggestion (type format, priority
\* medium) iff the section is 'skills' or 'technical-skills' and the text
\* contains neither a bullet character nor a hyphen.
C18_SkillsFormat ==
    eResult.status = "returned" =>
        /\ CountId(eResult.suggestions, "skills-format")
              = (IF /\ eSection \in {"skills", "technical-skills"}
                    /\ \A i \in 1..Len(eContent) :
                          Ch(eContent, i) \notin {Bullet, "-"}
                 THEN 1 ELSE 0)
        /\ \A k \in 1..Len(eResult.suggestions) :
              eResult.suggestions[k].id = "skills-format"
                 => /\ eResult.suggestions[k].type = "format"
                    /\ eResult.suggestions[k].priority = "medium"

C18_Witness ==
    /\ eResult.status = "returned"
    /\ eSection = "technical-skills"
    /\ eContent = "hello world"
    /\ CountId(eResult.suggestions, "skills-format") = 1

SuggestionIds ==
    {"word-count", "quantify", "action-verbs", "keywords", "summary-expand",
     "skills-format"}

\* C22: within one run of the engine the ids of the suggestions are pairwise
\* distinct, every id is one of word-count, quantify, action-verbs, keywords,
\* summary-expand, skills-format, and the run returns at most 5 suggestions.
C22_DistinctIdsAtMostFive ==
    eResult.status = "returned" =>
        /\ \A j, k \in 1..Len(eResult.suggestions) :
              eResult.suggestions[j].id = eResult.suggestions[k].id => j = k
        /\ \A k \in 1..Len(eResult.suggestions) :
              eResult.suggestions[k].id \in SuggestionIds
        /\ Len(eResult.suggestions) <= 5

C22_Witness ==
    /\ eResult.status = "returned"
    /\ eSection = "summary"
    /\ Len(eResult.suggestions) = 5
    /\ eResult.suggestions[5].id = "summary-expand"

\* C27: the improve route never sends an empty prompt: a request whose action
\* is present and is neither 'auto-improve' nor 'chat-command' gets no call of
\* the external service and no success response.
C27_NoEmptyPrompt ==
    /\ (gwOp = "improve" /\ gwAi # <<>>) => gwAi[1].prompt # ""
    /\ (gwOp = "improve" /\ gwReq # <<>>
           /\ ~Falsy(gwReq[1].action)
           /\ gwReq[1].action \notin {"auto-improve", "chat-command"})
       => /\ gwCalls = 0
          /\ gwPc = "done" => gwResp[1].status # 200

\* a step in which a debounce timer fired
TimerFired == Len(timers') < Len(timers)

\* the k-th displayed suggestion is applied after the step and was not before
NewlyApplied(k) ==
    /\ suggestions'[k].applied
    /\ ~(k <= Len(suggestions) /\ suggestions[k] = suggestions'[k])

\* C21: a suggestion is applied only because the user applied it: the list an
\* analysis run displays has applied = false throughout, and a displayed
\* suggestion becomes applied only in a step that is an Apply click for its
\* id, which hands that id to the consumer's onApplySuggestion exactly once.
C21_AppliedOnlyByUser ==
    [][/\ (TimerFired /\ suggestions' # suggestions)
          => \A k \in 1..Len(suggestions') : ~suggestions'[k].applied
       /\ \A k \in 1..Len(suggestions') :
             NewlyApplied(k)
                => /\ ~TimerFired
                   /\ k <= Len(suggestions)
                   /\ suggestions[k].id = suggestions'[k].id
                   /\ ~suggestions[k].applied
                   /\ applyCalls' = Append(applyCalls, suggestions[k].id)
       /\ applyCalls' # applyCalls
             => /\ Len(applyCalls') = Len(applyCalls) + 1
                /\ \E k \in 1..Len(suggestions') : NewlyApplied(k)
      ]_vars

C21_Witness ==
    /\ applyCalls = <<"quantify">>
    /\ \E k \in 1..Len(suggestions) :
          suggestions[k].id = "quantify" /\ suggestions[k].applied
    /\ \E k \in 1..Len(suggestions) : ~suggestions[k].applied

\* a displayed list without its applied flags
Plain(list) == [k \in 1..Len(list) |-> [list[k] EXCEPT !.applied = FALSE]]

\* C29: with live analysis on and no analysis pending, the displayed list is
\* the engine's output for the current text, role, area and section (the
\* empty list when the text or the role is empty and nothing is analysed),
\* also after edits that clear the text or the role.
C29_SettledShowsCurrent ==
    (realTimeAnalysis /\ timers = <<>>)
    => LET r == generateRealTimeSuggestions(resumeContent, targetRole,
                                            targetArea, currentSection)
       IN \/ r.status = "threw"
          \/ Plain(suggestions) = r.suggestions
          \/ (resumeContent = "" \/ targetRole = "") /\ suggestions = <<>>

\* C30: while live analysis stays off the displayed list is not replaced by
\* an analysis result (only applied flags may change), also when an analysis
\* was pending at the time it was switched off.
C30_OffKeepsList ==
    [][(~realTimeAnalysis /\ ~realTimeAnalysis')
          => Plain(suggestions') = Plain(suggestions)]_vars

(***************************************************************************)
(* The ResumeEditor component: parseContentIntoSections.                   *)
(***************************************************************************)
\* content.split('\n')
splitLines(content) ==
    LET breaks == {i \in 1..Len(content) : Ch(content, i) = "\n"}
        starts == {1} \cup {i + 1 : i \in breaks}
        ordered == [k \in 1..Cardinality(starts) |->
                       CHOOSE a \in starts :
                           Cardinality({b \in starts : b < a}) = k - 1]
    IN [k \in 1..Len(ordered) |->
           LET stop == IF k = Len(ordered) THEN Len(content)
                       ELSE ordered[k + 1] - 2
           IN substring(content, ordered[k], stop)]

\* line.match(/^[A-Z\s]+$/) && line.length > 3 && !line.includes('|')
\*   && !line.includes('@')
isSectionHeader(line) ==
    /\ Len(line) > 0
    /\ \A i \in 1..Len(line) :
          \/ \E k \in 1..26 : Ch(line, i) = Ch(UpperLetters, k)
          \/ IsWhitespace(Ch(line, i))
    /\ Len(line) > 3
    /\ ~includes(line, "|")
    /\ ~includes(line, "@")

\* s.replace(/\s+/g, '-')
RECURSIVE dashWhitespace(_)
dashWhitespace(s) ==
    IF Len(s) = 0 THEN ""
    ELSE IF IsWhitespace(Ch(s, 1))
    THEN LET rest == {i \in 1..Len(s) : ~IsWhitespace(Ch(s, i))}
         IN IF rest = {} THEN "-"
            ELSE "-" \o dashWhitespace(
                     substring(s, CHOOSE i \in rest : \A j \in rest : i <= j,
                               Len(s)))
    ELSE Ch(s, 1) \o dashWhitespace(substring(s, 2, Len(s)))

ResumeSection(id, title, content) ==
    [id |-> id, title |-> title, content |-> content, editable |-> TRUE]

\* the section pushed for a header and the lines collected under it
pushSection(parsedSections, sectionTitle, sectionLines) ==
    IF sectionTitle # "" /\ Len(sectionLines) > 0
    THEN Append(parsedSections,
                ResumeSection(dashWhitespace(toLowerCase(sectionTitle)),
                              sectionTitle, join(sectionLines, "\n")))
    ELSE parsedSections

defaultSections ==
    <<ResumeSection("header", "Header", "JOHN DOE\nSoftware Engineer"),
      ResumeSection("summary", "Professional Summary",
                    "Experienced professional with..."),
      ResumeSection("skills", "Technical Skills",
                    Bullet \o " Skill 1\n" \o Bullet \o " Skill 2\n"
                        \o Bullet \o " Skill 3"),
      ResumeSection("experience", "Professional Experience",
                    "Job Title | Company | Dates\n" \o Bullet
                        \o " Achievement 1\n" \o Bullet \o " Achievement 2"),
      ResumeSection("education", "Education", "Degree | University | Year")>>

\* the loop over the lines from line i on, and what follows the loop;
\* header[i] tells whether the trimmed line i is a section header
RECURSIVE parseLines(_, _, _, _, _, _)
parseLines(lines, header, i, sectionTitle, sectionLines, parsedSections) ==
    IF i > Len(lines)
    THEN LET all == pushSection(parsedSections, sectionTitle, sectionLines)
         IN IF Len(all) = 0 THEN defaultSections ELSE all
    ELSE LET line == trim(lines[i])
         IN IF header[i]
            THEN parseLines(lines, header, i + 1, line, <<>>,
                            pushSection(parsedSections, sectionTitle,
                                        sectionLines))
            ELSE IF line # ""
            THEN parseLines(lines, header, i + 1, sectionTitle,
                            Append(sectionLines, line), parsedSections)
            ELSE IF Len(sectionLines) > 0
            THEN parseLines(lines, header, i + 1, sectionTitle,
                            Append(sectionLines, ""), parsedSections)
            ELSE parseLines(lines, header, i + 1, sectionTitle,
                            sectionLines, parsedSections)

\* the value parseContentIntoSections hands to setSections
parsedSectionsOf(content) ==
    LET lines == splitLines(content)
    IN parseLines(lines,
                  [i \in 1..Len(lines) |-> isSectionHeader(trim(lines[i]))],
                  1, "", <<>>, <<>>)

EditorLines ==
    {"", "SKILLS", "  SKILLS  ", "WORK EXPERIENCE", "ABC", "ABCD", "Skills",
     "react, git", "SKILLS & TOOLS", "EDUCATION:", "PROJECTS 2024",
     "JOHN@EXAMPLE.COM", "DEV | ACME"}

RECURSIVE EditorTextsOf(_)
EditorTextsOf(n) ==
    IF n = 1 THEN EditorLines
    ELSE EditorTextsOf(n - 1)
         \cup {t \o "\n" \o l : t \in EditorTextsOf(n - 1), l \in EditorLines}

EditorTexts == EditorTextsOf(MaxLines)

engineIdle ==
    /\ eContent = "" /\ eRole = "" /\ eArea = "" /\ eSection = Undefined
    /\ eResult = NoResult

InitSections ==
    /\ initialContent \in EditorTexts
    /\ sections = <<>>
    /\ storeIdle /\ pageIdle
    /\ engineIdle /\ panelIdle /\ gatewayIdle

\* the effect of the mount: parseContentIntoSections(initialContent)
parseContentIntoSections ==
    /\ sections = <<>>
    /\ sections' = parsedSectionsOf(initialContent)
    /\ UNCHANGED <<initialContent, storeVars, pageVars, engineVars, panelVars,
                   gatewayVars>>

NextSections == parseContentIntoSections

SpecSections == InitSections /\ [][NextSections]_vars

\* the line has a letter and is its own upper-case form
FullyCapitalized(line) ==
    /\ \E i \in 1..Len(line) : \E k \in 1..26 : Ch(line, i) = Ch(UpperLetters, k)
    /\ \A i \in 1..Len(line) : \A k \in 1..26 : Ch(line, i) # Ch(LowerLetters, k)

ClaimedHeader(line) ==
    /\ FullyCapitalized(line)
    /\ Len(line) > 3
    /\ \A i \in 1..Len(line) : Ch(line, i) \notin {"|", "@"}

\* C23: a trimmed line is treated as a section header iff it is fully
\* capitalized, longer than three characters and contains neither '|' nor
\* '@', also when it contains digits or punctuation such as ':' or '&': the
\* sections set are those that test of the lines yields.
C23_HeaderRule ==
    sections # <<>>
    => LET lines == splitLines(initialContent)
       IN sections
            = parseLines(lines,
                         [i \in 1..Len(lines) |-> ClaimedHeader(trim(lines[i]))],
                         1, "", <<>>, <<>>)

(***************************************************************************)
(* POST /api/upload and GET /api/resume/[id] on global.resumeStore.  An    *)
(* upload awaits the parser; what follows the await (lines 79-134) runs    *)
(* without another await.                                                  *)
(***************************************************************************)
NoSession == [user |-> "", email |-> Undefined, none |-> TRUE]
Session(user, email) == [user |-> user, email |-> email, none |-> FALSE]

\* the sessions getServerSession yields: none, a user with an email, two
\* users whose provider gave no email
StoreSessions ==
    {NoSession, Session("alice", "alice@example.com"),
     Session("carol", Undefined), Session("dave", Undefined)}

\* the file of the form: none, or its type, name and what the parser does
\* with it (its text, or text "" for a PDF of images, or an error)
NoFile == [type |-> "", name |-> "", parse |-> "none", text |-> ""]
File(type, name, parse, text) ==
    [type |-> type, name |-> name, parse |-> parse, text |-> text]

Files ==
    {NoFile,
     File("text/plain", "notes.txt", "none", ""),
     File("application/pdf", "a.pdf", "ready", "Led a team"),
     File("application/pdf", "b.pdf", "ready", "hello world"),
     File("application/pdf", "scan.pdf", "ready", ""),
     File("application/pdf", "broken.pdf", "error", "Invalid PDF structure")}

UploadResponse(status, error, details, resumeId, content) ==
    [status |-> status, error |-> error, details |-> details,
     resumeId |-> resumeId, content |-> content]

NoResponse == UploadResponse(0, "", "", "", "")

\* Map.prototype.set
MapSet(map, key, value) ==
    [k \in DOMAIN map \cup {key} |-> IF k = key THEN value ELSE map[k]]

storeEmpty == [k \in {} |-> NoFile]

\* lines 12-30: the session and the file are checked
UploadReceive(session, file) ==
    /\ Len(uploads) < MaxUploads
    /\ uploads' = Append(uploads,
          [session |-> session, file |-> file,
           resp |-> IF session.none
                    THEN UploadResponse(401, "Unauthorized", "", "", "")
                    ELSE IF file = NoFile
                    THEN UploadResponse(400, "No file provided", "", "", "")
                    ELSE IF file.type # "application/pdf"
                    THEN UploadResponse(400, "Only PDF files are allowed", "",
                                        "", "")
                    ELSE NoResponse])
    /\ UNCHANGED <<now, resumeStore, fetched, sectionVars, pageVars,
                   engineVars, panelVars, gatewayVars>>

\* the upload is awaiting parsePromise
Parsing(i) == i \in 1..Len(uploads) /\ uploads[i].resp = NoResponse

\* lines 79-134: the parser settled.  The response for an empty text reads
\* pdfData, which is a parameter of the dataReady callback and not in scope
\* here: a ReferenceError, caught at line 100.
UploadParsed(i) ==
    /\ Parsing(i)
    /\ LET u == uploads[i]
           id == ToString(now)
       IN IF u.file.parse = "error"
          THEN /\ uploads' = [uploads EXCEPT ![i].resp =
                     UploadResponse(400, "Failed to process PDF file",
                                    u.file.text, "", "")]
               /\ UNCHANGED resumeStore
          ELSE IF u.file.text = ""
          THEN /\ uploads' = [uploads EXCEPT ![i].resp =
                     UploadResponse(400, "Failed to process PDF file",
                                    "pdfData is not defined", "", "")]
               /\ UNCHANGED resumeStore
          ELSE /\ resumeStore' = MapSet(resumeStore, id,
                     [id |-> id, userId |-> u.session.email,
                      fileName |-> u.file.name, content |-> u.file.text])
               /\ uploads' = [uploads EXCEPT ![i].resp =
                     UploadResponse(200, "", "", id, u.file.text)]
    /\ UNCHANGED <<now, fetched, sectionVars, pageVars, engineVars, panelVars,
                   gatewayVars>>

\* a millisecond passes: Date.now() advances
Tick ==
    /\ now < MaxClock
    /\ now' = now + 1
    /\ UNCHANGED <<resumeStore, uploads, fetched, sectionVars, pageVars,
                   engineVars, panelVars, gatewayVars>>

\* the answer of GET /api/resume/[id]
resumeResponse(session, resumeId, store) ==
    IF session.none
    THEN UploadResponse(401, "Unauthorized", "", "", "")
    ELSE IF resumeId \notin DOMAIN store
    THEN UploadResponse(404, "Resume not found",
             "The uploaded resume could not be found. Please upload again.",
             "", "")
    ELSE IF store[resumeId].userId # session.email
    THEN UploadResponse(403, "Unauthorized", "", "", "")
    ELSE UploadResponse(200, "", "", "", store[resumeId].content)

\* GET /api/resume/[id], served in one step
GetResume(session, resumeId) ==
    /\ fetched' = <<[session |-> session, resumeId |-> resumeId,
                     resp |-> resumeResponse(session, resumeId, resumeStore)]>>
    /\ fetched' # fetched
    /\ UNCHANGED <<now, resumeStore, uploads, sectionVars, pageVars,
                   engineVars, panelVars, gatewayVars>>

InitStore ==
    /\ now = 0 /\ resumeStore = storeEmpty /\ uploads = <<>> /\ fetched = <<>>
    /\ sectionsIdle /\ pageIdle
    /\ engineIdle /\ panelIdle /\ gatewayIdle

NextStore ==
    \/ \E session \in StoreSessions : \E file \in Files :
          UploadReceive(session, file)
    \/ \E i \in 1..MaxUploads : UploadParsed(i)
    \/ Tick
    \/ \E session \in StoreSessions : \E t \in 0..MaxClock :
          GetResume(session, ToString(t))

SpecStore == InitStore /\ [][NextStore]_vars

\* C24: GET /api/resume/[id] returns the content of a stored resume only to
\* a session whose user email equals the userId stored with the resume; every
\* other session and record, also those that have no email, gets 401, 403
\* or 404 and no content.
C24_OnlyOwnerReads ==
    [][fetched' # fetched
          => LET f == fetched'[1]
                 owned == /\ ~f.session.none
                          /\ f.session.email # Undefined
                          /\ f.resumeId \in DOMAIN resumeStore
                          /\ resumeStore[f.resumeId].userId = f.session.email
             IN IF owned
                THEN /\ f.resp.status = 200
                     /\ f.resp.content = resumeStore[f.resumeId].content
                ELSE /\ f.resp.status \in {401, 403, 404}
                     /\ f.resp.content = ""]_vars

\* the uploads answered with success
Stored == {i \in 1..Len(uploads) : uploads[i].resp.status = 200}

\* C25: every successful upload is stored under a resumeId none of the
\* resumes stored before has, so no successful upload overwrites another,
\* also for uploads handled in the same millisecond.
C25_FreshResumeId ==
    /\ \A i, j \in Stored : uploads[i].resp.resumeId = uploads[j].resp.resumeId
                               => i = j
    /\ \A i \in Stored :
          /\ uploads[i].resp.resumeId \in DOMAIN resumeStore
          /\ resumeStore[uploads[i].resp.resumeId].content
                = uploads[i].resp.content

\* C26: an upload of a PDF that parses without error and has no text is
\* answered 400 'No text found in PDF', not 'Failed to process PDF file',
\* and stores nothing.
C26_NoTextFound ==
    \A i \in 1..Len(uploads) :
        (/\ ~uploads[i].session.none
         /\ uploads[i].file.type = "application/pdf"
         /\ uploads[i].file.parse = "ready" /\ uploads[i].file.text = ""
         /\ uploads[i].resp # NoResponse)
        => /\ uploads[i].resp.status = 400
           /\ uploads[i].resp.error = "No text found in PDF"
           /\ \A k \in DOMAIN resumeStore :
                 resumeStore[k].fileName # uploads[i].file.name

(***************************************************************************)
(* The SmartResumeEditor page.  pgContent is its state resumeContent; a    *)
(* request awaiting its response holds the handler that sent it and the    *)
(* body it carries.  The texts of the messages are written without their   *)
(* pictographs.                                                            *)
(***************************************************************************)
\* the content parameter of the URL after decoding and normalisation
UrlContents == {"", "Led a team"}
EditedContents == {"Led a team", "Led a team of 5"}
ChatInputs == {"", " ", "shorten it"}

\* what the fetch of a request comes to: a response that is ok (with the
\* improvedContent and message of its body), one that is not, or an error
FetchResults ==
    {[kind |-> "ok", improvedContent |-> "Improved resume",
      message |-> "Resume improved"],
     [kind |-> "ok", improvedContent |-> "", message |-> ""],
     [kind |-> "notOk", improvedContent |-> "", message |-> ""],
     [kind |-> "error", improvedContent |-> "", message |-> ""]}

ImproveRequest(handler, content, action, command) ==
    [handler |-> handler, resumeContent |-> content, action |-> action,
     command |-> command]

\* the state after the mount and its effect on searchParams: with content in
\* the URL the text is set and autoImproveContent is scheduled in 2000 ms
InitPage ==
    /\ \E urlContent \in UrlContents :
          /\ pgContent = urlContent
          /\ autoTimer = IF urlContent # "" THEN <<urlContent>> ELSE <<>>
    /\ autoImproving = FALSE /\ processingChat = FALSE
    /\ chatMessage = "" /\ lastMessage = "" /\ inFlight = <<>>
    /\ sectionsIdle /\ storeIdle
    /\ engineIdle /\ panelIdle /\ gatewayIdle

\* the timer of the mount effect fires: autoImproveContent(decodedContent)
\* up to its await of fetch
autoImproveContent ==
    /\ autoTimer # <<>>
    /\ autoTimer' = <<>>
    /\ IF autoImproving
       THEN UNCHANGED <<autoImproving, lastMessage, inFlight>>
       ELSE /\ autoImproving' = TRUE
            /\ lastMessage' = "Analyzing your resume and applying automatic improvements..."
            /\ inFlight' = Append(inFlight,
                   ImproveRequest("autoImproveContent", autoTimer[1],
                                  "auto-improve", Undefined))
    /\ UNCHANGED <<pgContent, processingChat, chatMessage, sectionVars,
                   storeVars, engineVars, panelVars, gatewayVars>>

\* onChange of the chat input, which is disabled while processingChat
SetChatMessage(m) ==
    /\ ~processingChat
    /\ m # chatMessage
    /\ chatMessage' = m
    /\ UNCHANGED <<pgContent, autoImproving, processingChat, lastMessage,
                   autoTimer, inFlight, sectionVars, storeVars, engineVars,
                   panelVars, gatewayVars>>

\* onChange of the textarea
SetPageContent(c) ==
    /\ c # pgContent
    /\ pgContent' = c
    /\ UNCHANGED <<autoImproving, processingChat, chatMessage, lastMessage,
                   autoTimer, inFlight, sectionVars, storeVars, engineVars,
                   panelVars, gatewayVars>>

\* the form is submitted: handleChatSubmit up to its await of fetch
handleChatSubmit ==
    /\ ~(trim(chatMessage) = "" \/ processingChat)
    /\ chatMessage' = ""
    /\ processingChat' = TRUE
    /\ lastMessage' = "Processing: \"" \o trim(chatMessage) \o "\""
    /\ inFlight' = Append(inFlight,
           ImproveRequest("handleChatSubmit", pgContent, "chat-command",
                          trim(chatMessage)))
    /\ UNCHANGED <<pgContent, autoImproving, autoTimer, sectionVars,
                   storeVars, engineVars, panelVars, gatewayVars>>

\* the Furnish More button (disabled={autoImproving || processingChat}) is
\* clicked: handleFurnishMore up to its await of fetch
handleFurnishMore ==
    /\ ~(autoImproving \/ processingChat)
    /\ ~processingChat
    /\ processingChat' = TRUE
    /\ lastMessage' = "Processing: \"Furnish my resume more\""
    /\ inFlight' = Append(inFlight,
           ImproveRequest("handleFurnishMore", pgContent, "chat-command",
                          "Furnish my resume more"))
    /\ UNCHANGED <<pgContent, autoImproving, chatMessage, autoTimer,
                   sectionVars, storeVars, engineVars, panelVars, gatewayVars>>

\* the message a handler shows for the result of its fetch
ResultMessage(req, res) ==
    IF req.handler = "autoImproveContent"
    THEN (IF res.kind = "ok"
          THEN (IF res.improvedContent # ""
                THEN "Your resume has been automatically improved! Enhanced formatting, professional language, and optimized keywords."
                ELSE lastMessage)
          ELSE IF res.kind = "notOk"
          THEN "Auto-improvement failed. You can still edit manually or use chat commands."
          ELSE "Auto-improvement encountered an error. Manual editing is still available.")
    ELSE (IF res.kind = "ok"
          THEN (IF res.message # "" THEN res.message
                ELSE IF res.improvedContent = ""
                THEN "I understand your request. Let me help you with that."
                ELSE IF req.handler = "handleChatSubmit"
                THEN "Applied your request: \"" \o req.command \o "\""
                ELSE "Your resume has been further furnished!")
          ELSE IF res.kind = "notOk"
          THEN "Sorry, I had trouble processing your request. Please try again."
          ELSE "Connection error. Please check your internet and try again.")

\* the fetch of the i-th request awaiting settles and its handler runs on
RequestSettles(i, res) ==
    /\ i \in 1..Len(inFlight)
    /\ LET req == inFlight[i]
       IN /\ pgContent' = IF res.kind = "ok" /\ res.improvedContent # ""
                          THEN res.improvedContent ELSE pgContent
          /\ lastMessage' = ResultMessage(req, res)
          /\ IF req.handler = "autoImproveContent"
             THEN autoImproving' = FALSE /\ UNCHANGED processingChat
             ELSE processingChat' = FALSE /\ UNCHANGED autoImproving
    /\ inFlight' = [k \in 1..(Len(inFlight) - 1) |->
                       IF k < i THEN inFlight[k] ELSE inFlight[k + 1]]
    /\ UNCHANGED <<chatMessage, autoTimer, sectionVars, storeVars, engineVars,
                   panelVars, gatewayVars>>

NextPage ==
    \/ autoImproveContent
    \/ \E m \in ChatInputs : SetChatMessage(m)
    \/ \E c \in EditedContents : SetPageContent(c)
    \/ handleChatSubmit
    \/ handleFurnishMore
    \/ \E i \in 1..2 : \E res \in FetchResults : RequestSettles(i, res)

SpecPage == InitPage /\ [][NextPage]_vars

\* C28: in the editor page at most one request to /api/improve-resume awaits
\* its response at any time: while an auto-improve, chat-command or Furnish
\* More request is awaiting, no other improve request is sent.
C28_SingleInFlight == Len(inFlight) <= 1

====
